---- MODULE Spec2Model ----
(***************************************************************************)
(* Render-request orchestration of the html-to-image service.              *)
(*                                                                         *)
(* The repository holds several variants of one server.  Each variant is   *)
(* a program of its own and gets a specification of its own here:          *)
(*                                                                         *)
(*   SpecFixed   src/index.js lines 278-596: PagePool of maxSize pages,    *)
(*               acquire throws when saturated, GET /image renders         *)
(*               directly, cleanup run by a timer and by the memory        *)
(*               monitor.                                                  *)
(*   SpecFixedTtl  the same program followed past the ttl of its memory    *)
(*               cache.                                                    *)
(*   SpecPooled  src/unnamed/part_001: PagePool that creates a page when   *)
(*               none is idle, release that navigates to about:blank,      *)
(*               memory cache over a file cache, jobs run by a bull queue. *)
(*   SpecSingle  src/index.js lines 1-277: one page shared by every        *)
(*               request, GET and POST /image with option validation.      *)
(*   SpecSync    src/unnamed/part_000: jobs run one at a time, memory      *)
(*               cache over a file cache, options given by the sender.     *)
(*   SpecSyncBare  the same program with GET requests that have no html.    *)
(*   SpecMaster  the master process of the cluster and its workers.        *)
(*   SpecOptions the option handling of those two routes on its own, for   *)
(*               one request with every combination of parameter values.   *)
(*                                                                         *)
(* One JavaScript event-loop turn (the code between two awaits) is one     *)
(* action.  The rendering engine (puppeteer) is outside the repository:    *)
(* each of its calls resolves, rejects or never settles, chosen by \E.     *)
(***************************************************************************)
EXTENDS Integers, Sequences, FiniteSets, TLC

\* ------------------------------------------------------------------ bounds
MaxReq == 3
MaxPageId == 4
MaxNow == 600000
\* the overflow pool: the number of jobs, and the initial size of the pool
\* (this.maxSize = 5 in part_001) scaled down so that the jobs can exhaust it
MaxJobs == 2
\* the single-page variant: the number of requests
MaxClients == 2
OverflowInitSize == 1

Req == 1..MaxReq
Jobs == 1..MaxJobs
Clients == 1..MaxClients
Htmls == {"a", "b"}
NoHtml == "undefined"
NoPage == 0
NoContent == [content |-> "about:blank", viewport |-> <<800, 600>>]
Outcomes == {"ok", "err"}
Cleaner == {"timer", "monitor"}

\* ------------------------------------------------------- program constants
FixedMaxSize == 2
CleanupAge == 300000
CleanupInterval == 300000
MEMORY_LIMIT == 512 * 1024 * 1024
MAX_CONCURRENT_JOBS == 2
FixedCacheMax == 50
FixedCacheTtl == 1000 * 60 * 60
PooledCacheMax == 200
PooledCacheTtl == 1000 * 60 * 60

VARIABLES
    now,          \* Date.now()
    pages,        \* pagePool.pages: the pages of the pool, in array order
    info,         \* the pageInfo object of each page: [inUse, lastUsed]
    nextPage,     \* number of pages browser.newPage() has handed out
    loading,      \* pages on which a setContent that lost its race still runs
    memoryCache,  \* the LRU cache, least recently used first
    files,        \* CONFIG.CACHE_DIR: the set of [key, value] cache files
    page,         \* the single shared page: [content, viewport]
    req,          \* one record per HTTP request / generateImage call
    clean,        \* one record per caller of pagePool.cleanup()
    failedPages,  \* history: pages a failed or timed-out render was using
    cluster       \* the master's view: [workers, exits] (see the supervisor)

vars == <<now, pages, info, nextPage, loading, memoryCache, files, page, req,
          clean, failedPages, cluster>>

\* what the fixed variant does not have
notFixed == <<files, page, cluster>>

\* what the overflow-pool variant does not have
notPooled == <<page, cluster>>

\* what the single-page variant does not have
notSingle == <<now, pages, info, nextPage, loading, files, clean, failedPages,
              cluster>>

\* ------------------------------------------------------------- fingerprint
\* JSON.stringify of an options object given as its sequence of <<key, value>>
\* pairs in insertion order: the keys and values in that order, in braces.
RECURSIVE Members(_)
Members(o) ==
    IF o = << >> THEN << >> ELSE <<o[1][1], ":", o[1][2]>> \o Members(Tail(o))

Stringify(o) == <<"{">> \o Members(o) \o <<"}">>

\* crypto.createHash("md5").update(html + JSON.stringify(options)).digest("hex")
\* md5 is taken as collision free: the digest stands for the text it hashed.
Hash(html, options) == <<"md5">> \o <<html>> \o Stringify(options)

\* What the engine paints for a document; the bytes of the screenshot.
Shot(html) == <<"jpeg", html>>

\* ---------------------------------------------------------------- lru-cache
CacheIndex(c, k) ==
    IF \E i \in DOMAIN c : c[i].key = k
    THEN CHOOSE i \in DOMAIN c : c[i].key = k
    ELSE 0

Without(c, i) == SubSeq(c, 1, i - 1) \o SubSeq(c, i + 1, Len(c))

\* cache.get(k) at time t: [hit, value, cache]
LruGet(c, k, t, ttl, updateAge) ==
    LET i == CacheIndex(c, k) IN
    IF i = 0 THEN [hit |-> FALSE, value |-> << >>, cache |-> c]
    ELSE IF t - c[i].start > ttl
         THEN [hit |-> FALSE, value |-> << >>, cache |-> Without(c, i)]
         ELSE [hit |-> TRUE, value |-> c[i].value,
               cache |-> Without(c, i) \o
                   <<[c[i] EXCEPT !.start = IF updateAge THEN t ELSE @]>>]

\* cache.set that makes room by removing the entry used last
LruSetDropsNewest(c, k, v, t, max) ==
    LET i == CacheIndex(c, k)
        e == [key |-> k, value |-> v, start |-> t, born |-> t]
    IN  IF i # 0 THEN Without(c, i) \o <<e>>
        ELSE IF Len(c) >= max THEN SubSeq(c, 1, Len(c) - 1) \o <<e>>
        ELSE c \o <<e>>

\* cache.set(k, v) at time t.  lru-cache keeps the start of an entry's ttl;
\* born, the time of the set, is kept with it for the properties.
LruSet(c, k, v, t, max) ==
    LET i == CacheIndex(c, k)
        e == [key |-> k, value |-> v, start |-> t, born |-> t]
    IN  IF i # 0 THEN Without(c, i) \o <<e>>
        ELSE IF Len(c) >= max THEN Tail(c) \o <<e>>
        ELSE c \o <<e>>

\* ----------------------------------------------------------------- PagePool
\* this.pages is the sequence of the pool's pages; info[p] is the pageInfo
\* object of page p ({inUse, lastUsed}), which outlives its place in the pool.
NewInfo(busy, t) == [inUse |-> busy, lastUsed |-> t]

\* this.pages.find(p => !p.inUse): index of the first idle page, or 0
FirstIdle(ps, inf) ==
    IF \E i \in DOMAIN ps : ~inf[ps[i]].inUse
    THEN CHOOSE i \in DOMAIN ps :
             ~inf[ps[i]].inUse /\ \A j \in 1..(i - 1) : inf[ps[j]].inUse
    ELSE 0

InPool(ps, p) == \E i \in DOMAIN ps : ps[i] = p

\* AcquireFixed that hands out the first page when no page is idle
AcquireBusyPage(ps, inf, t) ==
    LET i == IF FirstIdle(ps, inf) = 0 /\ ps # << >> THEN 1
             ELSE FirstIdle(ps, inf)
    IN  IF i = 0 THEN [ok |-> FALSE, page |-> NoPage, info |-> inf]
        ELSE [ok |-> TRUE, page |-> ps[i],
              info |-> [inf EXCEPT ![ps[i]] = NewInfo(TRUE, t)]]

\* AcquireFixed that stamps lastUsed of the first page before it throws
AcquireFixedStamps(ps, inf, t) ==
    LET i == FirstIdle(ps, inf) IN
    IF i = 0
    THEN [ok |-> FALSE, page |-> NoPage,
          info |-> IF ps = << >> THEN inf
                   ELSE [inf EXCEPT ![ps[1]].lastUsed = t]]
    ELSE [ok |-> TRUE, page |-> ps[i],
          info |-> [inf EXCEPT ![ps[i]] = NewInfo(TRUE, t)]]

\* PagePool.acquire of the fixed pool: [ok, page, info]
AcquireFixed(ps, inf, t) ==
    LET i == FirstIdle(ps, inf) IN
    IF i = 0 THEN [ok |-> FALSE, page |-> NoPage, info |-> inf]
    ELSE [ok |-> TRUE, page |-> ps[i],
          info |-> [inf EXCEPT ![ps[i]] = NewInfo(TRUE, t)]]

\* ReleaseFixed that flips the flag of the page it finds
ReleaseFixedToggles(ps, inf, p, t) ==
    IF InPool(ps, p) THEN [inf EXCEPT ![p] = NewInfo(~inf[p].inUse, t)] ELSE inf

\* PagePool.release of the fixed pool: the new info
ReleaseFixed(ps, inf, p, t) ==
    IF InPool(ps, p) THEN [inf EXCEPT ![p] = NewInfo(FALSE, t)] ELSE inf

\* the pages cleanup selects: idle and last used more than 300000 ms ago
IsOld(e, t) == ~e.inUse /\ t - e.lastUsed > CleanupAge

OldPages(ps, inf, t) == SelectSeq(ps, LAMBDA p : IsOld(inf[p], t))

RemovePage(ps, p) == SelectSeq(ps, LAMBDA q : q # p)

InUseCount(ps, inf) == Cardinality({i \in DOMAIN ps : inf[ps[i]].inUse})

\* ------------------------------------------------------------------- cluster
\* The worker programs below leave the master's view alone.
NoCluster == [workers |-> << >>, exits |-> << >>]

\* ------------------------------------------------------------------ requests
IdleReq == [pc |-> "idle", html |-> NoHtml, page |-> NoPage,
            status |-> 0, body |-> << >>]

Respond(r, st, b) ==
    [req[r] EXCEPT !.pc = "done", !.page = NoPage, !.status = st, !.body = b]

\* Requests are interchangeable: request r is the r-th to arrive.
Arrives(r) == req[r].pc = "idle" /\ \A q \in 1..(r - 1) : req[q].pc # "idle"

\* ============================================================ fixed variant
InitFixed ==
    /\ now = 0
    /\ pages = [i \in 1..FixedMaxSize |-> i]
    /\ info = [p \in 1..MaxPageId |-> NewInfo(FALSE, 0)]
    /\ nextPage = FixedMaxSize
    /\ loading = {}
    /\ memoryCache = << >>
    /\ files = {}
    /\ page = NoContent
    /\ req = [r \in Req |-> IdleReq]
    /\ clean = [c \in Cleaner |-> [pc |-> "idle", old |-> << >>]]
    /\ failedPages = {}
    /\ cluster = NoCluster

\* Time passes, one cleanup interval at a time.
Tick ==
    /\ now + CleanupInterval <= MaxNow
    /\ now' = now + CleanupInterval
    /\ UNCHANGED <<pages, info, nextPage, loading, memoryCache, files, page,
                   req, clean, failedPages, cluster>>

\* Time passes, the ttl of the memory cache at once (after the short ticks).
TickTtl ==
    /\ now + CleanupInterval > MaxNow
    /\ now < FixedCacheTtl
    /\ now' = now + FixedCacheTtl
    /\ UNCHANGED <<pages, info, nextPage, loading, memoryCache, files, page,
                   req, clean, failedPages, cluster>>

\* app.get("/image") up to the first await of generateImage: the html check,
\* the cache lookup and pagePool.acquire(), whose body runs without yielding.
FixedGet(r, h) ==
    /\ Arrives(r)
    /\ IF h = NoHtml
       THEN /\ req' = [req EXCEPT ![r] = Respond(r, 400, <<"error">>)]
            /\ UNCHANGED <<info, memoryCache>>
       ELSE LET got == LruGet(memoryCache, Hash(h, << >>), now,
                              FixedCacheTtl, TRUE)
                acq == AcquireFixed(pages, info, now)
            IN  /\ memoryCache' = got.cache
                /\ IF got.hit
                   THEN /\ req' = [req EXCEPT ![r] =
                               [Respond(r, 200, got.value) EXCEPT !.html = h]]
                        /\ UNCHANGED info
                   ELSE /\ info' = acq.info
                        /\ req' = [req EXCEPT ![r] =
                               IF acq.ok
                               THEN [pc |-> "setViewport", html |-> h,
                                     page |-> acq.page, status |-> 0,
                                     body |-> << >>]
                               ELSE [Respond(r, 500, <<"error">>)
                                        EXCEPT !.html = h]]
    /\ UNCHANGED <<notFixed, now, pages, nextPage, loading, clean, failedPages>>

\* app.post("/image"): the html check, queue.add (o is how it settles) and
\* the await of job.finished().  No queue.process is registered in this
\* program, so nothing ever takes the job, and CONFIG.REQUEST_TIMEOUT is read
\* nowhere: a request that waits for its job has no step left.
FixedPost(r, h, o) ==
    /\ Arrives(r)
    /\ req' = [req EXCEPT ![r] =
           IF h = NoHtml THEN Respond(r, 400, <<"error">>)
           ELSE IF o = "err" THEN Respond(r, 500, <<"error">>)
           ELSE [@ EXCEPT !.pc = "finished", !.html = h]]
    /\ UNCHANGED <<notFixed, now, pages, info, nextPage, loading, memoryCache,
                   clean, failedPages>>

\* the finally block of generateImage after a throw, and the route's catch
FixedFail(r) ==
    /\ info' = ReleaseFixed(pages, info, req[r].page, now)
    /\ failedPages' = failedPages \cup {req[r].page}
    /\ req' = [req EXCEPT ![r] = Respond(r, 500, <<"error">>)]

\* a page that has left the pool was closed by cleanup; the engine rejects
\* every operation on it
Closed(p) == ~InPool(pages, p)

\* page.setViewport settles
FixedSetViewport(r, o) ==
    /\ req[r].pc = "setViewport"
    /\ o = "ok" => ~Closed(req[r].page)
    /\ IF o = "ok"
       THEN /\ req' = [req EXCEPT ![r].pc = "setContent"]
            /\ UNCHANGED <<info, failedPages>>
       ELSE FixedFail(r)
    /\ UNCHANGED <<notFixed, now, pages, nextPage, loading, memoryCache, clean>>

\* page.setContent settles before the 5000 ms timer of the Promise.race
FixedSetContent(r, o) ==
    /\ req[r].pc = "setContent"
    /\ o = "ok" => ~Closed(req[r].page)
    /\ IF o = "ok"
       THEN /\ req' = [req EXCEPT ![r].pc = "screenshot"]
            /\ UNCHANGED <<info, failedPages>>
       ELSE FixedFail(r)
    /\ UNCHANGED <<notFixed, now, pages, nextPage, loading, memoryCache, clean>>

\* the timer of the Promise.race fires first: generateImage throws 'Timeout'
\* and releases the page; nothing stops the setContent it raced against
FixedTimeout(r) ==
    /\ req[r].pc = "setContent"
    /\ loading' = loading \cup {req[r].page}
    /\ FixedFail(r)
    /\ UNCHANGED <<notFixed, now, pages, nextPage, memoryCache, clean>>

\* a setContent that lost its race settles at last
SetContentSettles(p) ==
    /\ p \in loading
    /\ loading' = loading \ {p}
    /\ UNCHANGED <<now, pages, info, nextPage, memoryCache, files, page, req,
                   clean, failedPages, cluster>>

\* page.screenshot settles; on success the cache is written and the finally
\* block releases the page
FixedScreenshot(r, o) ==
    /\ req[r].pc = "screenshot"
    /\ o = "ok" => ~Closed(req[r].page)
    /\ IF o = "ok"
       THEN /\ memoryCache' = LruSet(memoryCache, Hash(req[r].html, << >>),
                                     Shot(req[r].html), now, FixedCacheMax)
            /\ info' = ReleaseFixed(pages, info, req[r].page, now)
            /\ req' = [req EXCEPT ![r] = Respond(r, 200, Shot(req[r].html))]
            /\ UNCHANGED failedPages
       ELSE /\ FixedFail(r)
            /\ UNCHANGED memoryCache
    /\ UNCHANGED <<notFixed, now, pages, nextPage, loading, clean>>

\* pagePool.cleanup() up to its first await: select the old pages and call
\* close() on the first
FixedCleanupStart(c) ==
    /\ clean[c].pc = "idle"
    /\ LET old == OldPages(pages, info, now) IN
       /\ old # << >>
       /\ clean' = [clean EXCEPT ![c] = [pc |-> "closing", old |-> old]]
    /\ UNCHANGED <<notFixed, now, pages, info, nextPage, loading, memoryCache, req,
                   failedPages>>

\* setInterval(() => pagePool.cleanup(), 300000)
FixedCleanupTimer == FixedCleanupStart("timer")

\* the memory monitor: cleanup when heapUsed exceeds CONFIG.MEMORY_LIMIT
FixedMonitor(used) ==
    /\ used > MEMORY_LIMIT
    /\ FixedCleanupStart("monitor")

\* close() of the page at the head of oldPages settles.  On success the page
\* leaves this.pages; the next statement, browser.newPage(), throws a
\* ReferenceError (PagePool is declared at module level, `browser` inside the
\* worker's else-block), the catch logs it and the loop goes on.
FixedCleanupClosed(c, o) ==
    /\ clean[c].pc = "closing"
    /\ LET p == Head(clean[c].old)
           rest == Tail(clean[c].old)
       IN  /\ pages' = IF o = "ok" THEN RemovePage(pages, p) ELSE pages
           /\ clean' = [clean EXCEPT ![c] =
                  IF rest = << >> THEN [pc |-> "idle", old |-> << >>]
                  ELSE [pc |-> "closing", old |-> rest]]
    /\ UNCHANGED <<notFixed, now, info, nextPage, loading, memoryCache, req, failedPages>>

NextFixed ==
    \/ Tick
    \/ \E r \in Req, h \in Htmls \cup {NoHtml} : FixedGet(r, h)
    \/ \E r \in Req, h \in Htmls \cup {NoHtml}, o \in Outcomes :
           FixedPost(r, h, o)
    \/ \E r \in Req, o \in Outcomes : FixedSetViewport(r, o)
    \/ \E r \in Req, o \in Outcomes : FixedSetContent(r, o)
    \/ \E r \in Req : FixedTimeout(r)
    \/ \E p \in 1..MaxPageId : SetContentSettles(p)
    \/ \E r \in Req, o \in Outcomes : FixedScreenshot(r, o)
    \/ FixedCleanupTimer
    \/ \E used \in {MEMORY_LIMIT, MEMORY_LIMIT + 1} : FixedMonitor(used)
    \/ \E c \in Cleaner, o \in Outcomes : FixedCleanupClosed(c, o)

SpecFixed == InitFixed /\ [][NextFixed]_vars

\* The same program watched for longer than the ttl of its memory cache.
NextFixedTtl ==
    \/ NextFixed
    \/ TickTtl

SpecFixedTtl == InitFixed /\ [][NextFixedTtl]_vars

\* The event loop runs every timer that is due: the timer of the Promise.race
\* fires while its setContent is still pending.  Nothing obliges the engine
\* to settle a call.
FairSpecFixed ==
    SpecFixed /\ \A r \in Req : WF_vars(FixedTimeout(r))

\* a generateImage call that holds a page and has not yet returned or thrown
Rendering(r) == req[r].pc \in {"setViewport", "setContent", "screenshot"}

\* C4: concurrent requests with the same fingerprint are deduplicated: exactly
\* one render executes, so two calls for the same html never render at once.
C4_OneRenderPerFingerprint ==
    \A r1, r2 \in Req :
        (r1 # r2 /\ Rendering(r1) /\ Rendering(r2))
            => req[r1].html # req[r2].html

\* C6: a page that a failed or timed-out render was using is recycled, so no
\* later job holds that same page instance.
C6_FailedPageNeverReacquired ==
    \A r \in Req : Rendering(r) => req[r].page \notin failedPages

\* C7: the timeout cancels the in-flight render: a page marked idle has no
\* setContent of a timed-out job still in progress on it.
C7_IdlePageHasNoSetContent ==
    \A i \in DOMAIN pages : ~info[pages[i]].inUse => pages[i] \notin loading

\* C8: no page is held indefinitely: every acquired page is eventually
\* released or recycled, even if the engine never returns from a step.
C8_EveryHeldPageIsReleased ==
    \A r \in Req : Rendering(r) ~> ~Rendering(r)

\* =========================================== overflow pool (part_001)
\* sharp(screenshot).webp(...).toBuffer(): the stored image
Webp(shot) == <<"webp">> \o shot

\* What the engine paints is not a function of the document alone (fonts and
\* resources still loading, transitions, an earlier setContent still at work
\* on the page): a screenshot of a document is one of these.
Frames == {1, 2}
ShotOf(html, frame) == <<"jpeg", html, frame>>

FileKeys == {f.key : f \in files}

FileOf(k) == (CHOOSE f \in files : f.key = k).value

\* fs.writeFile(cachedFile, image)
WriteFile(fs, k, v) == {f \in fs : f.key # k} \cup {[key |-> k, value |-> v]}

IdlePooledReq ==
    [pc |-> "idle", html |-> NoHtml, page |-> NoPage, status |-> 0,
     body |-> << >>, job |-> "none", cached |-> FALSE, tier |-> 0,
     attemptsMade |-> 0, out |-> [ok |-> FALSE, image |-> << >>]]

\* generateImage returns {image, cached} (ok) or throws.  tier records for
\* the properties which cache answered: 1 the memory cache, 2 the cache
\* file.  The bull job, if it
\* has not timed out, completes or fails, and job.finished() answers the route.
Finished(rec, ok, image, wasCached) ==
    LET ended == [rec EXCEPT !.pc = "done", !.page = NoPage,
                             !.cached = wasCached,
                             !.out = [ok |-> FALSE, image |-> << >>]]
    IN  IF rec.job # "active" THEN ended
        ELSE [ended EXCEPT !.job = IF ok THEN "completed" ELSE "failed",
                           !.status = IF ok THEN 200 ELSE 500,
                           !.body = IF ok THEN image ELSE <<"error">>]

\* PagePool.acquire of the overflow pool up to its first await:
\* [found, page, info]
AcquireOverflow(ps, inf, t) ==
    LET i == FirstIdle(ps, inf) IN
    IF i = 0 THEN [found |-> FALSE, page |-> NoPage, info |-> inf]
    ELSE [found |-> TRUE, page |-> ps[i],
          info |-> [inf EXCEPT ![ps[i]] = NewInfo(TRUE, t)]]

\* `const page = await pagePool.acquire()` in generateImage
PooledAcquire(r) ==
    LET acq == AcquireOverflow(pages, info, now) IN
    /\ info' = acq.info
    /\ req' = [req EXCEPT ![r] =
           IF acq.found
           THEN [@ EXCEPT !.pc = "setViewport", !.page = acq.page]
           ELSE [@ EXCEPT !.pc = "creating"]]

\* the finally block: pagePool.release(page) up to its first await.  A page
\* found in this.pages is sent to about:blank before it is marked idle; for
\* a page not found release does nothing and generateImage ends.
PooledStartRelease(r, ok, image) ==
    req' = [req EXCEPT ![r] =
        IF InPool(pages, req[r].page)
        THEN [@ EXCEPT !.pc = "release", !.out = [ok |-> ok, image |-> image]]
        ELSE Finished(@, ok, image, FALSE)]

InitPooled ==
    /\ now = 0
    /\ pages = [i \in 1..OverflowInitSize |-> i]
    /\ info = [p \in 1..MaxPageId |-> NewInfo(FALSE, 0)]
    /\ nextPage = OverflowInitSize
    /\ loading = {}
    /\ memoryCache = << >>
    /\ files = {}
    /\ page = NoContent
    /\ req = [r \in Jobs |-> IdlePooledReq]
    /\ clean = [c \in Cleaner |-> [pc |-> "idle", old |-> << >>, t0 |-> 0]]
    /\ failedPages = {}
    /\ cluster = NoCluster

\* app.post("/image"): the html check and queue.add
PooledPost(r, h) ==
    /\ Arrives(r)
    /\ req' = [req EXCEPT ![r] =
           IF h = NoHtml
           THEN [@ EXCEPT !.pc = "done", !.status = 400, !.body = <<"error">>]
           ELSE [@ EXCEPT !.pc = "waiting", !.job = "waiting", !.html = h]]
    /\ UNCHANGED <<notPooled, now, pages, info, nextPage, loading, memoryCache, files,
                   clean, failedPages>>

\* PooledProcess that starts any waiting job, not the oldest
PooledProcessAnyWaiting(r) ==
    /\ req[r].job = "waiting"
    /\ \A q \in Jobs : req[q].job # "active"
    /\ LET got == LruGet(memoryCache, Hash(req[r].html, << >>), now,
                         PooledCacheTtl, TRUE)
           active == [req[r] EXCEPT !.job = "active"]
       IN  /\ memoryCache' = got.cache
           /\ req' = [req EXCEPT ![r] =
                  IF got.hit
                  THEN [Finished(active, TRUE, got.value, TRUE)
                           EXCEPT !.tier = 1]
                  ELSE [active EXCEPT !.pc = "access"]]
    /\ UNCHANGED <<notPooled, now, pages, info, nextPage, loading, files, clean,
                   failedPages>>

\* PooledProcess with the page acquired before the memory cache is consulted
PooledProcessAcquiresFirst(r) ==
    /\ req[r].job = "waiting"
    /\ \A q \in Jobs : req[q].job # "active"
    /\ \A q \in 1..(r - 1) : req[q].job # "waiting"
    /\ LET got == LruGet(memoryCache, Hash(req[r].html, << >>), now,
                         PooledCacheTtl, TRUE)
           acq == AcquireOverflow(pages, info, now)
           active == [req[r] EXCEPT !.job = "active"]
       IN  /\ memoryCache' = got.cache
           /\ info' = acq.info
           /\ req' = [req EXCEPT ![r] =
                  IF got.hit THEN Finished(active, TRUE, got.value, TRUE)
                  ELSE [active EXCEPT !.pc = "access"]]
    /\ UNCHANGED <<notPooled, now, pages, nextPage, loading, files, clean, failedPages>>

\* queue.process with the default concurrency of 1: the oldest waiting job
\* starts when no job is active; attemptsMade counts the runs of its handler.
\* The queue sets no attempts option, and bull's default is one attempt, so
\* a job that failed is never made to wait again.  generateImage runs up to its first await:
\* the memory cache lookup, then fs.access is called.
PooledProcess(r) ==
    /\ req[r].job = "waiting"
    /\ \A q \in Jobs : req[q].job # "active"
    /\ \A q \in 1..(r - 1) : req[q].job # "waiting"
    /\ LET got == LruGet(memoryCache, Hash(req[r].html, << >>), now,
                         PooledCacheTtl, TRUE)
           active == [req[r] EXCEPT !.job = "active", !.attemptsMade = @ + 1]
       IN  /\ memoryCache' = got.cache
           /\ req' = [req EXCEPT ![r] =
                  IF got.hit
                  THEN [Finished(active, TRUE, got.value, TRUE)
                           EXCEPT !.tier = 1]
                  ELSE [active EXCEPT !.pc = "access"]]
    /\ UNCHANGED <<notPooled, now, pages, info, nextPage, loading, files, clean,
                   failedPages>>

\* defaultJobOptions.timeout: bull fails a job that runs longer than
\* PAGE_TIMEOUT and goes on to the next one; the handler is not stopped.
PooledJobTimeout(r) ==
    /\ req[r].job = "active"
    /\ req' = [req EXCEPT ![r] = [@ EXCEPT !.job = "failed", !.status = 500,
                                           !.body = <<"error">>]]
    /\ UNCHANGED <<notPooled, now, pages, info, nextPage, loading, memoryCache, files,
                   clean, failedPages>>

\* fs.access settles: the file is read if it exists, a page acquired if not
PooledAccess(r) ==
    /\ req[r].pc = "access"
    /\ IF Hash(req[r].html, << >>) \in FileKeys
       THEN /\ req' = [req EXCEPT ![r].pc = "readFile"]
            /\ UNCHANGED info
       ELSE PooledAcquire(r)
    /\ UNCHANGED <<notPooled, now, pages, nextPage, loading, memoryCache, files, clean,
                   failedPages>>

\* PooledReadFile that returns the file's bytes without memoryCache.set
PooledReadFileOnly(r, o) ==
    /\ req[r].pc = "readFile"
    /\ LET k == Hash(req[r].html, << >>) IN
       /\ o = "ok" => k \in FileKeys
       /\ IF o = "ok"
          THEN /\ req' = [req EXCEPT ![r] =
                      [Finished(@, TRUE, FileOf(k), TRUE) EXCEPT !.tier = 2]]
               /\ UNCHANGED <<info, memoryCache>>
          ELSE /\ PooledAcquire(r)
               /\ UNCHANGED memoryCache
    /\ UNCHANGED <<notPooled, now, pages, nextPage, loading, files, clean, failedPages>>

\* fs.readFile settles: on success the image goes to the memory cache and is
\* returned; an error is logged and generateImage goes on to render
PooledReadFile(r, o) ==
    /\ req[r].pc = "readFile"
    /\ LET k == Hash(req[r].html, << >>) IN
       /\ o = "ok" => k \in FileKeys
       /\ IF o = "ok"
          THEN /\ memoryCache' = LruSet(memoryCache, k, FileOf(k), now,
                                        PooledCacheMax)
               /\ req' = [req EXCEPT ![r] =
                      [Finished(@, TRUE, FileOf(k), TRUE) EXCEPT !.tier = 2]]
               /\ UNCHANGED info
          ELSE /\ PooledAcquire(r)
               /\ UNCHANGED memoryCache
    /\ UNCHANGED <<notPooled, now, pages, nextPage, loading, files, clean, failedPages>>

\* createOptimizedPage settles for a call that found no idle page: the new
\* page is pushed with inUse: true
PooledCreated(r, o) ==
    /\ req[r].pc = "creating"
    /\ o = "ok" => nextPage < MaxPageId
    /\ IF o = "ok"
       THEN /\ nextPage' = nextPage + 1
            /\ pages' = Append(pages, nextPage + 1)
            /\ info' = [info EXCEPT ![nextPage + 1] = NewInfo(TRUE, now)]
            /\ req' = [req EXCEPT ![r] =
                   [@ EXCEPT !.pc = "setViewport", !.page = nextPage + 1]]
       ELSE /\ req' = [req EXCEPT ![r] = Finished(@, FALSE, << >>, FALSE)]
            /\ UNCHANGED <<pages, info, nextPage>>
    /\ UNCHANGED <<notPooled, now, loading, memoryCache, files, clean, failedPages>>

PooledSetViewport(r, o) ==
    /\ req[r].pc = "setViewport"
    /\ o = "ok" => ~Closed(req[r].page)
    /\ IF o = "ok"
       THEN req' = [req EXCEPT ![r].pc = "setContent"]
       ELSE PooledStartRelease(r, FALSE, << >>)
    /\ UNCHANGED <<notPooled, now, pages, info, nextPage, loading, memoryCache, files,
                   clean, failedPages>>

\* page.setContent settles before the timer of the Promise.race
PooledSetContent(r, o) ==
    /\ req[r].pc = "setContent"
    /\ o = "ok" => ~Closed(req[r].page)
    /\ IF o = "ok"
       THEN req' = [req EXCEPT ![r].pc = "screenshot"]
       ELSE PooledStartRelease(r, FALSE, << >>)
    /\ UNCHANGED <<notPooled, now, pages, info, nextPage, loading, memoryCache, files,
                   clean, failedPages>>

\* the timer of the Promise.race fires first ('Rendering timeout')
PooledTimeout(r) ==
    /\ req[r].pc = "setContent"
    /\ loading' = loading \cup {req[r].page}
    /\ PooledStartRelease(r, FALSE, << >>)
    /\ UNCHANGED <<notPooled, now, pages, info, nextPage, memoryCache, files, clean,
                   failedPages>>

\* page.screenshot and the sharp conversion settle; fs.writeFile is called
PooledScreenshot(r, o, frame) ==
    /\ req[r].pc = "screenshot"
    /\ o = "ok" => ~Closed(req[r].page)
    /\ IF o = "ok"
       THEN req' = [req EXCEPT ![r] =
                [@ EXCEPT !.pc = "writeFile",
                          !.out = [ok |-> FALSE,
                                   image |-> Webp(ShotOf(req[r].html, frame))]]]
       ELSE PooledStartRelease(r, FALSE, << >>)
    /\ UNCHANGED <<notPooled, now, pages, info, nextPage, loading, memoryCache, files,
                   clean, failedPages>>

\* The write of fs.writeFile reaches the file; the promise is resolved in a
\* later turn of the event loop.
PooledFileWritten(r) ==
    /\ req[r].pc = "writeFile"
    /\ files' = WriteFile(files, Hash(req[r].html, << >>), req[r].out.image)
    /\ req' = [req EXCEPT ![r].pc = "written"]
    /\ UNCHANGED <<notPooled, now, pages, info, nextPage, loading, memoryCache, clean,
                   failedPages>>

\* PooledWriteFile that returns the image without memoryCache.set
PooledWriteFileUnstored(r, o) ==
    /\ req[r].pc = IF o = "ok" THEN "written" ELSE "writeFile"
    /\ IF o = "ok" THEN PooledStartRelease(r, TRUE, req[r].out.image)
       ELSE PooledStartRelease(r, FALSE, << >>)
    /\ UNCHANGED <<notPooled, now, pages, info, nextPage, loading, memoryCache, files,
                   clean, failedPages>>

\* fs.writeFile settles: on success the memory cache is written too; on an
\* error (the file was not written) generateImage throws.  Either way the
\* finally block runs.
PooledWriteFile(r, o) ==
    /\ req[r].pc = IF o = "ok" THEN "written" ELSE "writeFile"
    /\ LET k == Hash(req[r].html, << >>)
           image == req[r].out.image
       IN  IF o = "ok"
           THEN /\ memoryCache' = LruSet(memoryCache, k, image, now,
                                         PooledCacheMax)
                /\ PooledStartRelease(r, TRUE, image)
           ELSE /\ PooledStartRelease(r, FALSE, << >>)
                /\ UNCHANGED memoryCache
    /\ UNCHANGED <<notPooled, now, pages, info, nextPage, loading, files, clean,
                   failedPages>>

\* PagePool.release after its awaits (page.goto('about:blank') and
\* page.setJavaScriptEnabled(false)): [the new info, whether release threw]
ReleaseOverflow(inf, p, o) ==
    IF o = "ok" THEN [inf EXCEPT ![p].inUse = FALSE] ELSE inf

\* the awaits of release settle, and generateImage returns or throws
PooledReleased(r, o) ==
    /\ req[r].pc = "release"
    /\ o = "ok" => ~Closed(req[r].page)
    /\ info' = ReleaseOverflow(info, req[r].page, o)
    /\ req' = [req EXCEPT ![r] =
           IF o = "ok" THEN Finished(@, @.out.ok, @.out.image, FALSE)
           ELSE Finished(@, FALSE, << >>, FALSE)]
    /\ UNCHANGED <<notPooled, now, pages, nextPage, loading, memoryCache, files, clean,
                   failedPages>>

\* the loop of cleanup: skip the pages that are in use or not old enough
RECURSIVE NextOld(_, _, _)
NextOld(todo, inf, t) ==
    IF todo = << >> THEN << >>
    ELSE IF IsOld(inf[Head(todo)], t) THEN todo
    ELSE NextOld(Tail(todo), inf, t)

\* pagePool.cleanup() up to its first await: close() of the first old page
PooledCleanupStart(c) ==
    /\ clean[c].pc = "idle"
    /\ LET old == NextOld(pages, info, now) IN
       /\ old # << >>
       /\ clean' = [clean EXCEPT ![c] =
              [pc |-> "closing", old |-> old, t0 |-> now]]
    /\ UNCHANGED <<notPooled, now, pages, info, nextPage, loading, memoryCache, files,
                   req, failedPages>>

PooledCleanupTimer == PooledCleanupStart("timer")

PooledMonitor(used) ==
    /\ used > MEMORY_LIMIT
    /\ PooledCleanupStart("monitor")

\* close() settles: the page leaves this.pages and the loop goes on over the
\* array it started with; a rejection ends cleanup (there is no catch)
PooledCleanupClosed(c, o) ==
    /\ clean[c].pc = "closing"
    /\ LET p == Head(clean[c].old)
           rest == NextOld(Tail(clean[c].old), info, clean[c].t0)
       IN  /\ pages' = IF o = "ok" THEN RemovePage(pages, p) ELSE pages
           /\ clean' = [clean EXCEPT ![c] =
                  IF o = "ok" /\ rest # << >>
                  THEN [@ EXCEPT !.old = rest]
                  ELSE [pc |-> "idle", old |-> << >>, t0 |-> 0]]
    /\ UNCHANGED <<notPooled, now, info, nextPage, loading, memoryCache, files, req,
                   failedPages>>

NextPooled ==
    \/ Tick
    \/ \E r \in Jobs, h \in Htmls \cup {NoHtml} : PooledPost(r, h)
    \/ \E r \in Jobs : PooledProcess(r)
    \/ \E r \in Jobs : PooledJobTimeout(r)
    \/ \E r \in Jobs : PooledAccess(r)
    \/ \E r \in Jobs, o \in Outcomes : PooledReadFile(r, o)
    \/ \E r \in Jobs, o \in Outcomes : PooledCreated(r, o)
    \/ \E r \in Jobs, o \in Outcomes : PooledSetViewport(r, o)
    \/ \E r \in Jobs, o \in Outcomes : PooledSetContent(r, o)
    \/ \E r \in Jobs : PooledTimeout(r)
    \/ \E p \in 1..MaxPageId : SetContentSettles(p)
    \/ \E r \in Jobs, o \in Outcomes, frame \in Frames :
           PooledScreenshot(r, o, frame)
    \/ \E r \in Jobs : PooledFileWritten(r)
    \/ \E r \in Jobs, o \in Outcomes : PooledWriteFile(r, o)
    \/ \E r \in Jobs, o \in Outcomes : PooledReleased(r, o)
    \/ PooledCleanupTimer
    \/ \E used \in {MEMORY_LIMIT, MEMORY_LIMIT + 1} : PooledMonitor(used)
    \/ \E c \in Cleaner, o \in Outcomes : PooledCleanupClosed(c, o)

SpecPooled == InitPooled /\ [][NextPooled]_vars

\* C1: the number of pool pages marked inUse never exceeds the pool's
\* capacity, which for the overflow pool is its initial size.
C1_InUseWithinCapacity == InUseCount(pages, info) <= OverflowInitSize

\* C3: every acquire is matched by a release on every exit path: a pool page
\* is marked inUse only while a generateImage call holds it.
C3_InUseOnlyWhileHeld ==
    \A i \in DOMAIN pages :
        info[pages[i]].inUse => \E r \in Jobs : req[r].page = pages[i]

\* a generateImage call of job r ends in this step with a cache hit
EndsCached(r) == req[r].pc # "done" /\ req'[r].pc = "done" /\ req'[r].cached

\* C5: a cache hit never touches the pool: a call that finds its fingerprint
\* in the cache (memory or file) returns the cached bytes, holds no page, and
\* leaves this.pages and every inUse flag as they were.
C5_CacheHitLeavesPool ==
    [][\A r \in Jobs :
          EndsCached(r) =>
              /\ req[r].page = NoPage
              /\ pages' = pages
              /\ info' = info
              /\ LET i == CacheIndex(memoryCache', Hash(req[r].html, << >>))
                 IN  /\ i # 0
                     /\ req'[r].status = 200
                            => req'[r].body = memoryCache'[i].value]_vars

C5_Witness ==
    \E r \in Jobs :
        /\ req[r].pc = "done" /\ req[r].cached /\ req[r].status = 200
        /\ \E q \in Jobs : req[q].page # NoPage

\* =========================================== single shared page (lines 1-277)
SingleCacheMax == 20
SingleCacheTtl == 1800000
MonitorLimit == 800

\* A query or body parameter is a text, or Absent when the request does not
\* carry it. Numeral gives the number a decimal text denotes.
Absent == "undefined"
NoFormat == "undefined"
Urls == {"u"}
NoSource == "none"
Numeral == ("0" :> 0) @@ ("1" :> 1) @@ ("100" :> 100) @@ ("101" :> 101)
               @@ ("4000" :> 4000) @@ ("4001" :> 4001)

\* the parameter values the lone request of SpecOptions is drawn from
Widths == {Absent, "0", "1", "4000", "4001"}
Heights == {Absent, "0", "1", "4000", "4001"}
Qualities == {Absent, "0", "1", "100", "101"}
Formats == {NoFormat, "jpeg", "PNG", "pdf", "svgz"}

\* the parameter values the concurrent requests of SpecSingle are drawn from
SomeWidths == {Absent, "4000", "4001"}
SomeHeights == {Absent}
SomeQualities == {Absent, "101"}
SomeFormats == {NoFormat, "pdf", "svgz"}

\* parseInt: <<n>> for a numeral, NaN for anything else
NaN == << >>
ParseInt(x) == IF x \in DOMAIN Numeral THEN <<Numeral[x]>> ELSE NaN

\* a || b on numbers: b when a is NaN or 0
OrElse(a, b) == IF a = NaN \/ a = <<0>> THEN b ELSE a

\* String.prototype.toLowerCase on the format names in use
ToLowerCase(f) == IF f = "PNG" THEN "png" ELSE f

\* the options object of POST /image
PostOptions(width, height, quality, format) ==
    [width |-> OrElse(ParseInt(width), <<800>>)[1],
     height |-> OrElse(ParseInt(height), <<600>>)[1],
     quality |-> OrElse(ParseInt(quality), <<80>>)[1],
     format |-> IF format = NoFormat THEN "jpeg" ELSE format]

\* the options object of GET /image, with the short names w, h and q
GetOptions(width, w, height, h, quality, q, format) ==
    [width |-> OrElse(ParseInt(width), OrElse(ParseInt(w), <<800>>))[1],
     height |-> OrElse(ParseInt(height), OrElse(ParseInt(h), <<600>>))[1],
     quality |-> OrElse(ParseInt(quality), OrElse(ParseInt(q), <<80>>))[1],
     format |-> IF format = NoFormat THEN "jpeg" ELSE format]

\* the three checks of the routes, in their order: the error text, or "ok"
Validate(options) ==
    IF \/ options.width < 1 \/ options.width > 4000
       \/ options.height < 1 \/ options.height > 4000
    THEN "Invalid dimensions"
    ELSE IF options.quality < 1 \/ options.quality > 100
         THEN "Invalid quality"
         ELSE IF ToLowerCase(options.format) \notin {"jpeg", "png", "pdf"}
              THEN "Invalid format"
              ELSE "ok"

\* html + JSON.stringify(options) of generateImage
SingleHash(html, options) ==
    Hash(html, <<<<"width", options.width>>, <<"height", options.height>>,
                 <<"quality", options.quality>>, <<"format", options.format>>>>)

\* What the engine returns for the shared page as it is at the call:
\* page.pdf with the call's own size, or page.screenshot of the page's
\* viewport, with the quality for jpeg only.
Output(pg, options) ==
    IF ToLowerCase(options.format) = "pdf"
    THEN <<"pdf", pg.content, <<options.width, options.height>>, 0>>
    ELSE <<ToLowerCase(options.format), pg.content, pg.viewport,
           IF ToLowerCase(options.format) = "jpeg" THEN options.quality ELSE 0>>

\* the document found at a url
Doc(url) == "doc"

NoOptions == [width |-> 0, height |-> 0, quality |-> 0, format |-> NoFormat]

IdleClient ==
    [pc |-> "idle", html |-> NoHtml, options |-> NoOptions,
     touched |-> FALSE, status |-> 0, body |-> << >>]

InitSingle ==
    /\ now = 0
    /\ pages = << >>
    /\ info = << >>
    /\ nextPage = 1
    /\ loading = {}
    /\ memoryCache = << >>
    /\ files = {}
    /\ page = NoContent
    /\ req = [r \in Clients |-> IdleClient]
    /\ clean = << >>
    /\ failedPages = {}
    /\ cluster = NoCluster

Answer(rec, st, b) == [rec EXCEPT !.pc = "done", !.status = st, !.body = b]

\* The route from the options on: the checks, then generateImage up to its
\* first await (the fingerprint, cache.get, initializePage).
Validated(r, rec) ==
    LET v == Validate(rec.options)
        got == LruGet(memoryCache, SingleHash(rec.html, rec.options), now,
                      SingleCacheTtl, FALSE)
    IN  IF v # "ok"
        THEN /\ req' = [req EXCEPT ![r] = Answer(rec, 400, <<v>>)]
             /\ UNCHANGED memoryCache
        ELSE /\ memoryCache' = got.cache
             /\ req' = [req EXCEPT ![r] =
                    IF got.hit
                    THEN Answer([rec EXCEPT !.touched = TRUE], 200, got.value)
                    ELSE [rec EXCEPT !.touched = TRUE, !.pc = "setViewport"]]

\* app.post("/image")
SinglePost(r, html, width, height, quality, format) ==
    /\ Arrives(r)
    /\ LET rec == [req[r] EXCEPT
                      !.html = html,
                      !.options = PostOptions(width, height, quality, format)]
       IN  IF html = NoHtml
           THEN /\ req' = [req EXCEPT ![r] =
                       Answer(req[r], 400, <<"HTML required">>)]
                /\ UNCHANGED memoryCache
           ELSE Validated(r, rec)
    /\ UNCHANGED <<notSingle, page>>

\* app.get("/image"): with a url the shared page is sent there first
SingleGet(r, src, width, height, quality, format) ==
    /\ Arrives(r)
    /\ LET rec == [req[r] EXCEPT
                      !.options = GetOptions(width, Absent, height, Absent,
                                             quality, Absent, format)]
       IN  IF src \in Urls
           THEN /\ req' = [req EXCEPT ![r] =
                       [rec EXCEPT !.pc = "goto", !.html = src,
                                   !.touched = TRUE]]
                /\ UNCHANGED memoryCache
           ELSE IF src \in Htmls
           THEN Validated(r, [rec EXCEPT !.html = src])
           ELSE /\ req' = [req EXCEPT ![r] =
                       Answer(req[r], 400, <<"URL or HTML required">>)]
                /\ UNCHANGED memoryCache
    /\ UNCHANGED <<notSingle, page>>

\* page.goto(req.query.url) settles
SingleGoto(r, o) ==
    /\ req[r].pc = "goto"
    /\ IF o = "ok"
       THEN /\ page' = [page EXCEPT !.content = Doc(req[r].html)]
            /\ req' = [req EXCEPT ![r].pc = "content"]
       ELSE /\ req' = [req EXCEPT ![r] =
                   Answer(req[r], 400, <<"Failed to load URL">>)]
            /\ UNCHANGED page
    /\ UNCHANGED <<notSingle, memoryCache>>

\* page.content() settles: the html is what the shared page holds by now
SingleContent(r, o) ==
    /\ req[r].pc = "content"
    /\ IF o = "ok"
       THEN Validated(r, [req[r] EXCEPT !.html = page.content])
       ELSE /\ req' = [req EXCEPT ![r] =
                   Answer(req[r], 400, <<"Failed to load URL">>)]
            /\ UNCHANGED memoryCache
    /\ UNCHANGED <<notSingle, page>>

\* generateImage: page.setViewport settles
SingleSetViewport(r, o) ==
    /\ req[r].pc = "setViewport"
    /\ IF o = "ok"
       THEN /\ page' = [page EXCEPT
                   !.viewport = <<req[r].options.width, req[r].options.height>>]
            /\ req' = [req EXCEPT ![r].pc = "setContent"]
       ELSE /\ req' = [req EXCEPT ![r] =
                   Answer(req[r], 500, <<"Generation failed">>)]
            /\ UNCHANGED page
    /\ UNCHANGED <<notSingle, memoryCache>>

\* generateImage: page.setContent settles (its own timeout is an "err"); the
\* one second page.evaluate that follows is part of the wait for the shot
SingleSetContent(r, o) ==
    /\ req[r].pc = "setContent"
    /\ IF o = "ok"
       THEN /\ page' = [page EXCEPT !.content = req[r].html]
            /\ req' = [req EXCEPT ![r].pc = "screenshot"]
       ELSE /\ req' = [req EXCEPT ![r] =
                   Answer(req[r], 500, <<"Generation failed">>)]
            /\ UNCHANGED page
    /\ UNCHANGED <<notSingle, memoryCache>>

\* generateImage: page.screenshot or page.pdf settles
SingleScreenshot(r, o) ==
    /\ req[r].pc = "screenshot"
    /\ IF o = "ok"
       THEN LET output == Output(page, req[r].options) IN
            /\ memoryCache' =
                   LruSet(memoryCache, SingleHash(req[r].html, req[r].options),
                          output, now, SingleCacheMax)
            /\ req' = [req EXCEPT ![r] = Answer(req[r], 200, output)]
       ELSE /\ req' = [req EXCEPT ![r] =
                   Answer(req[r], 500, <<"Generation failed">>)]
            /\ UNCHANGED memoryCache
    /\ UNCHANGED <<notSingle, page>>

\* the memory watch of initialize(): used is heapUsed in megabytes
SingleMonitor(used) ==
    /\ used > MonitorLimit
    /\ memoryCache # << >>
    /\ memoryCache' = << >>
    /\ UNCHANGED <<notSingle, page, req>>

NextSingle ==
    \/ \E r \in Clients, html \in Htmls \cup {NoHtml}, width \in SomeWidths,
          height \in SomeHeights, quality \in SomeQualities,
          format \in SomeFormats :
           SinglePost(r, html, width, height, quality, format)
    \/ \E r \in Clients, src \in Htmls \cup Urls \cup {NoSource},
          width \in SomeWidths, height \in SomeHeights,
          quality \in SomeQualities, format \in SomeFormats :
           SingleGet(r, src, width, height, quality, format)
    \/ \E r \in Clients, o \in Outcomes : SingleGoto(r, o)
    \/ \E r \in Clients, o \in Outcomes : SingleContent(r, o)
    \/ \E r \in Clients, o \in Outcomes : SingleSetViewport(r, o)
    \/ \E r \in Clients, o \in Outcomes : SingleSetContent(r, o)
    \/ \E r \in Clients, o \in Outcomes : SingleScreenshot(r, o)
    \/ \E used \in {MonitorLimit, MonitorLimit + 1} : SingleMonitor(used)

SpecSingle == InitSingle /\ [][NextSingle]_vars

\* a generateImage call of request r is at work on the shared page
OnPage(r) == req[r].pc \in {"setViewport", "setContent", "screenshot"}

\* C2: exclusive handles: a rendering page is never used by two generateImage
\* calls that run at the same time; while one call is between its setViewport
\* and the end of its screenshot no other call works on that page.
C2_OneCallPerPage ==
    \A r \in Clients : \A q \in Clients : OnPage(r) /\ OnPage(q) => r = q

ValidationErrors == {"Invalid dimensions", "Invalid quality", "Invalid format"}

\* C9: a request that fails validation is answered 400 before the page or the
\* cache is touched: no goto, setViewport, setContent, cache.get or cache.set
\* has been done for it.
C9_RejectedBeforeTouch ==
    \A r \in Clients :
        req[r].pc = "done" /\ req[r].status = 400
                /\ req[r].body[1] \in ValidationErrors
            => ~req[r].touched

\* ================================== the option checks of /image on their own
\* One request with every combination of the parameter values; the routes are
\* followed from the arrival to the 400 answer or to the call of generateImage.
Routes == {"GET", "POST"}

InitOptions ==
    /\ now = 0
    /\ pages = << >>
    /\ info = << >>
    /\ nextPage = 1
    /\ loading = {}
    /\ memoryCache = << >>
    /\ files = {}
    /\ page = NoContent
    /\ req \in [{1} -> [pc : {"idle"}, route : Routes, html : Htmls \cup {NoHtml},
                        width : Widths, w : {Absent, "4001"}, height : Heights,
                        quality : Qualities, format : Formats,
                        options : {NoOptions}, status : {0}, body : {<< >>}]]
    /\ clean = << >>
    /\ failedPages = {}
    /\ cluster = NoCluster

Checked(rec, options) ==
    IF Validate(options) # "ok"
    THEN [rec EXCEPT !.pc = "done", !.options = options, !.status = 400,
                     !.body = <<Validate(options)>>]
    ELSE [rec EXCEPT !.pc = "generateImage", !.options = options]

\* app.post("/image") up to its call of generateImage
OptionsPost(r) ==
    /\ req[r].pc = "idle"
    /\ req[r].route = "POST"
    /\ req' = [req EXCEPT ![r] =
           IF req[r].html = NoHtml
           THEN [req[r] EXCEPT !.pc = "done", !.status = 400,
                               !.body = <<"HTML required">>]
           ELSE Checked(req[r], PostOptions(req[r].width, req[r].height,
                                            req[r].quality, req[r].format))]
    /\ UNCHANGED <<notSingle, page, memoryCache>>

\* app.get("/image") with ?html= up to its call of generateImage
OptionsGet(r) ==
    /\ req[r].pc = "idle"
    /\ req[r].route = "GET"
    /\ req' = [req EXCEPT ![r] =
           IF req[r].html = NoHtml
           THEN [req[r] EXCEPT !.pc = "done", !.status = 400,
                               !.body = <<"URL or HTML required">>]
           ELSE Checked(req[r], GetOptions(req[r].width, req[r].w,
                                           req[r].height, Absent,
                                           req[r].quality, Absent,
                                           req[r].format))]
    /\ UNCHANGED <<notSingle, page, memoryCache>>

NextOptions ==
    \/ \E r \in {1} : OptionsPost(r)
    \/ \E r \in {1} : OptionsGet(r)

SpecOptions == InitOptions /\ [][NextOptions]_vars

\* C10: a request for a document is answered 400 if and only if its format is
\* not one of jpeg, png, pdf, or its width or height is outside 1..4000, or
\* its quality is outside 1..100, the values 0, 4001 and 101 included.
C10_BadRequestIffOutOfRange ==
    LET OutOfRange(rec) ==
            \/ rec.format # NoFormat
                   /\ ToLowerCase(rec.format) \notin {"jpeg", "png", "pdf"}
            \/ rec.width # Absent /\ Numeral[rec.width] \notin 1..4000
            \/ rec.route = "GET" /\ rec.width = Absent /\ rec.w # Absent
                   /\ Numeral[rec.w] \notin 1..4000
            \/ rec.height # Absent /\ Numeral[rec.height] \notin 1..4000
            \/ rec.quality # Absent /\ Numeral[rec.quality] \notin 1..100
    IN  \A r \in DOMAIN req :
            req[r].pc # "idle" /\ req[r].html # NoHtml
                => (req[r].status = 400 <=> OutOfRange(req[r]))

\* ======================================================= sequential variant
\* src/unnamed/part_000, one worker: both /image routes add a bull job, the
\* worker runs the jobs one at a time (queue.process with the default
\* concurrency), generateImage looks in the memory cache, then in the file
\* cache, and renders on a page of the pool otherwise.  The options of a
\* request come from its sender.  The master process deletes the cache files
\* that are older than a day.
MaxCalls == 4
\* requests arrive while fewer than MaxWaiting jobs wait in the queue
MaxWaiting == 1
\* the memory cache keeps MAX_MEMORY_CACHE = 100 images; the model lets it
\* keep SyncCacheMax, few enough for MaxCalls requests to fill it
SyncCacheMax == 2
\* hours pass up to MaxSyncNow, and then a day
MaxSyncNow == 3600000

Calls == 1..MaxCalls
SyncCacheTtl == 3600000
SyncCleanupInterval == 3600000
DayMs == 24 * 3600000

\* the html of GET /image without an html parameter: not the value undefined
\* but the nine letters, a text like any other
Undefined == "'undefined'"

\* the html of the requests; the GET requests here all have one
SyncHtmls == {"a"}

\* Option sets a sender can give, as the members of the JSON object in the
\* order they were written, each value in its JSON text.
OptionSets ==
    { << >>,
      << <<"width", "1280">>, <<"height", "720">> >>,
      << <<"height", "720">>, <<"width", "1280">> >> }

\* the fingerprints of the requests that can be made
SyncKeys == {Hash(h, o) : h \in SyncHtmls, o \in OptionSets}

\* options[name], or dflt when the object has no such member
Member(o, name, dflt) ==
    IF \E i \in DOMAIN o : o[i][1] = name
    THEN o[CHOOSE i \in DOMAIN o : o[i][1] = name][2]
    ELSE dflt

\* const { width = 1280, height = 720, fullPage = true } = options
Destructure(o) ==
    [width |-> Member(o, "width", "1280"),
     height |-> Member(o, "height", "720"),
     fullPage |-> Member(o, "fullPage", "true")]

\* page.screenshot({type: "png", fullPage}) of html in the viewport
SyncShot(html, o, frame) ==
    <<"png", html, Destructure(o).width, Destructure(o).height,
      Destructure(o).fullPage, frame>>

\* fs.writeFileSync(cachedFile, screenshot) at time t
SyncWriteNothing(fs, k, v, t) == fs

SyncWriteFile(fs, k, v, t) ==
    {f \in fs : f.key # k} \cup {[key |-> k, value |-> v, mtime |-> t]}

\* tier records where the image of a finished call came from: 1 the memory
\* cache, 2 the file cache, 3 a render that was stored, at the time at.
IdleCall ==
    [pc |-> "idle", html |-> NoHtml, options |-> << >>, page |-> NoPage,
     status |-> 0, body |-> << >>, job |-> "none", hash |-> << >>,
     tier |-> 0, at |-> 0]

InitSync ==
    /\ now = 0
    /\ pages = [i \in 1..OverflowInitSize |-> i]
    /\ info = [p \in 1..MaxPageId |-> NewInfo(FALSE, 0)]
    /\ nextPage = OverflowInitSize
    /\ loading = {}
    /\ memoryCache = << >>
    /\ files = {}
    /\ page = NoContent
    /\ req = [r \in Calls |-> IdleCall]
    /\ clean = [c \in Cleaner |-> [pc |-> "idle", old |-> << >>]]
    /\ failedPages = {}
    /\ cluster = NoCluster

notSync == <<nextPage, loading, page, clean, failedPages, cluster>>

\* the next request is received (while the queue is short)
SyncArrives(r) ==
    /\ Arrives(r)
    /\ Cardinality({q \in Calls : req[q].job = "waiting"}) < MaxWaiting

\* queue.add({html, options}); job.finished() is awaited
SyncAdd(r, h, o) ==
    req' = [req EXCEPT ![r] =
        [@ EXCEPT !.pc = "waiting", !.job = "waiting", !.html = h,
                  !.options = o]]

\* app.post("/image"): options || {}
SyncPost(r, h, o) ==
    /\ SyncArrives(r)
    /\ IF h = NoHtml
       THEN req' = [req EXCEPT ![r] =
                [@ EXCEPT !.pc = "done", !.status = 400, !.body = <<"error">>]]
       ELSE SyncAdd(r, h, o)
    /\ UNCHANGED <<notSync, now, pages, info, memoryCache, files>>

\* app.get("/image"): decodeURIComponent of a missing html parameter is the
\* text "undefined", which passes the !html check
SyncGet(r, h, o) ==
    /\ SyncArrives(r)
    /\ SyncAdd(r, IF h = NoHtml THEN Undefined ELSE h, o)
    /\ UNCHANGED <<notSync, now, pages, info, memoryCache, files>>

\* done(null, image) / done(err), the route's answer, and the finally block
\* of generateImage: pagePool.release(page)
SyncDone(rec, ok, image, from, t) ==
    [rec EXCEPT !.pc = "done", !.page = NoPage,
                !.job = IF ok THEN "completed" ELSE "failed",
                !.status = IF ok THEN 200 ELSE 500,
                !.body = IF ok THEN image ELSE <<"error">>,
                !.tier = from, !.at = IF from = 3 THEN t ELSE 0]

SyncRelease(inf, p) == [inf EXCEPT ![p] = [@ EXCEPT !.inUse = FALSE]]

SyncFail(r) ==
    /\ req' = [req EXCEPT ![r] = SyncDone(@, FALSE, << >>, 0, now)]
    /\ info' = SyncRelease(info, req[r].page)
    /\ UNCHANGED <<notSync, now, pages, memoryCache, files>>

\* queue.process: the oldest waiting job starts when no job is active, and
\* generateImage runs up to page.setViewport.  With one job at a time and a
\* release in every finally block the pool has an idle page at each acquire.
SyncProcess(r) ==
    /\ req[r].job = "waiting"
    /\ \A q \in Calls : req[q].job # "active"
    /\ \A q \in 1..(r - 1) : req[q].job # "waiting"
    /\ LET hash == Hash(req[r].html, req[r].options)
           got == LruGet(memoryCache, hash, now, SyncCacheTtl, FALSE)
           acq == AcquireOverflow(pages, info, now)
           active == [req[r] EXCEPT !.job = "active", !.hash = hash]
       IN  IF got.hit
           THEN /\ memoryCache' = got.cache
                /\ req' = [req EXCEPT ![r] =
                       SyncDone(active, TRUE, got.value, 1, now)]
                /\ info' = info
           ELSE IF hash \in FileKeys
           THEN /\ memoryCache' = LruSet(got.cache, hash, FileOf(hash), now,
                                         SyncCacheMax)
                /\ req' = [req EXCEPT ![r] =
                       SyncDone(active, TRUE, FileOf(hash), 2, now)]
                /\ info' = info
           ELSE /\ acq.found
                /\ memoryCache' = got.cache
                /\ info' = acq.info
                /\ req' = [req EXCEPT ![r] =
                       [active EXCEPT !.pc = "setViewport", !.page = acq.page]]
    /\ UNCHANGED <<notSync, now, pages, files>>

\* await page.setViewport({width, height})
SyncSetViewport(r, o) ==
    /\ req[r].pc = "setViewport"
    /\ IF o = "ok"
       THEN /\ req' = [req EXCEPT ![r] = [@ EXCEPT !.pc = "setContent"]]
            /\ UNCHANGED <<notSync, now, pages, info, memoryCache, files>>
       ELSE SyncFail(r)

\* page.setContent wins the Promise.race
SyncSetContent(r, o) ==
    /\ req[r].pc = "setContent"
    /\ IF o = "ok"
       THEN /\ req' = [req EXCEPT ![r] = [@ EXCEPT !.pc = "screenshot"]]
            /\ UNCHANGED <<notSync, now, pages, info, memoryCache, files>>
       ELSE SyncFail(r)

\* the PAGE_TIMEOUT timer of the Promise.race rejects first
SyncTimeout(r) ==
    /\ req[r].pc = "setContent"
    /\ SyncFail(r)

\* page.screenshot settles; on success writeFileSync (w is its outcome),
\* memoryCache.set, return, finally
SyncScreenshot(r, o, frame, w) ==
    /\ req[r].pc = "screenshot"
    /\ IF o = "ok" /\ w = "ok"
       THEN LET screenshot == SyncShot(req[r].html, req[r].options, frame) IN
            /\ files' = SyncWriteFile(files, req[r].hash, screenshot, now)
            /\ memoryCache' = LruSet(memoryCache, req[r].hash, screenshot,
                                     now, SyncCacheMax)
            /\ req' = [req EXCEPT ![r] = SyncDone(@, TRUE, screenshot, 3, now)]
            /\ info' = SyncRelease(info, req[r].page)
            /\ UNCHANGED <<notSync, now, pages>>
       ELSE SyncFail(r)

\* Time passes: an hour, or a day.
SyncTick ==
    /\ now + SyncCleanupInterval <= MaxSyncNow
    /\ now' = now + SyncCleanupInterval
    /\ UNCHANGED <<notSync, pages, info, memoryCache, files, req>>

SyncTickDay ==
    /\ now < DayMs
    /\ now' = now + DayMs
    /\ UNCHANGED <<notSync, pages, info, memoryCache, files, req>>

\* a cache file that the master's sweep finds older than a day
Expired(k) ==
    /\ k \in FileKeys
    /\ now - (CHOOSE f \in files : f.key = k).mtime > DayMs

\* SyncUnlink without the test of the age
SyncUnlinkAny(k, o) ==
    /\ k \in FileKeys
    /\ files' = IF o = "ok" THEN {f \in files : f.key # k} ELSE files
    /\ UNCHANGED <<notSync, now, pages, info, memoryCache, req>>

\* the master's hourly sweep of the cache directory, for one file: fs.stat,
\* and fs.unlink when the file is older than a day.  An error of either call
\* (o) leaves the file where it is; the callbacks of the other files run
\* all the same.
SyncUnlink(k, o) ==
    /\ Expired(k)
    /\ files' = IF o = "ok" THEN {f \in files : f.key # k} ELSE files
    /\ UNCHANGED <<notSync, now, pages, info, memoryCache, req>>

NextSync ==
    \/ \E r \in Calls, h \in SyncHtmls \cup {NoHtml}, o \in OptionSets :
           SyncPost(r, h, o)
    \/ \E r \in Calls, h \in SyncHtmls, o \in OptionSets :
           SyncGet(r, h, o)
    \/ \E r \in Calls : SyncProcess(r)
    \/ \E r \in Calls, o \in Outcomes : SyncSetViewport(r, o)
    \/ \E r \in Calls, o \in Outcomes : SyncSetContent(r, o)
    \/ \E r \in Calls : SyncTimeout(r)
    \/ \E r \in Calls, o \in Outcomes, frame \in Frames, w \in Outcomes :
           SyncScreenshot(r, o, frame, w)
    \/ SyncTick
    \/ SyncTickDay
    \/ \E k \in SyncKeys, o \in Outcomes : SyncUnlink(k, o)

SpecSync == InitSync /\ [][NextSync]_vars

\* The same program with the GET requests that have no html parameter.
NextSyncBare ==
    \/ NextSync
    \/ \E r \in Calls : SyncGet(r, NoHtml, << >>)

SpecSyncBare == InitSync /\ [][NextSyncBare]_vars

\* ================================================================ supervisor
\* The master process of the cluster (src/index.js lines 399-413, part_000
\* lines 26-41): it forks CONFIG.WORKERS workers and forks one more on every
\* 'exit' event.  A worker is a process of its own: it comes online, runs
\* its initialization, listens, and may exit at any moment (a crash, a
\* signal, process.exit(1) when the initialization fails, process.exit(0)
\* in shutdown).
\* CONFIG.WORKERS: process.env.WORKERS || os.cpus().length
NumWorkers == 2
\* worker exits that are followed
MaxExits == 3

WorkerIds == 1..(NumWorkers + MaxExits)
ExitCodes == {"0", "1", "SIGKILL"}

Live(c) == {w \in WorkerIds : c.workers[w] \in {"online", "listening"}}
Gone(c) == {w \in WorkerIds : c.workers[w] = "dead"}

\* cluster.fork(): the next worker id
Fork(c) ==
    LET id == CHOOSE w \in WorkerIds :
                  /\ c.workers[w] = "none"
                  /\ \A v \in 1..(w - 1) : c.workers[v] # "none"
    IN  [c EXCEPT !.workers[id] = "online"]

notMaster == <<now, pages, info, nextPage, loading, memoryCache, files, page,
               req, clean, failedPages>>

\* the master after its top-level code: the for loop has forked the workers
InitMaster ==
    /\ now = 0
    /\ pages = << >>
    /\ info = << >>
    /\ nextPage = 1
    /\ loading = {}
    /\ memoryCache = << >>
    /\ files = {}
    /\ page = NoContent
    /\ req = << >>
    /\ clean = << >>
    /\ failedPages = {}
    /\ cluster = [workers |-> [w \in WorkerIds |->
                                 IF w <= NumWorkers THEN "online" ELSE "none"],
                  exits |-> << >>]

\* a worker ends its initialization: app.listen
WorkerListens(w) ==
    /\ cluster.workers[w] = "online"
    /\ cluster' = [cluster EXCEPT !.workers[w] = "listening"]
    /\ UNCHANGED notMaster

\* a worker process exits; the 'exit' event is queued for the master
WorkerExits(w, code) ==
    /\ w \in Live(cluster)
    /\ Cardinality(Gone(cluster)) < MaxExits
    /\ cluster' = [cluster EXCEPT
           !.workers[w] = "dead",
           !.exits = Append(@, [worker |-> w, code |-> code])]
    /\ UNCHANGED notMaster

\* a handler of 'exit' that restarts only the workers that crashed
MasterOnCrash ==
    /\ cluster.exits # << >>
    /\ cluster' = IF Head(cluster.exits).code = "0"
                  THEN [cluster EXCEPT !.exits = Tail(@)]
                  ELSE Fork([cluster EXCEPT !.exits = Tail(@)])
    /\ UNCHANGED notMaster

\* cluster.on('exit', (worker, code, signal) => { ...; cluster.fork(); })
MasterOnExit ==
    /\ cluster.exits # << >>
    /\ cluster' = Fork([cluster EXCEPT !.exits = Tail(@)])
    /\ UNCHANGED notMaster

NextMaster ==
    \/ \E w \in WorkerIds : WorkerListens(w)
    \/ \E w \in WorkerIds, code \in ExitCodes : WorkerExits(w, code)
    \/ MasterOnExit

SpecMaster == InitMaster /\ [][NextMaster]_vars

\* The event loop of the master runs the handler of every event it is given.
FairSpecMaster == SpecMaster /\ WF_vars(MasterOnExit)

\* ===================================== properties of the caches and the queue
PooledKey(r) == Hash(req[r].html, << >>)

\* C15: read-through promotion: the cache file is consulted only after the
\* memory cache missed; when the file is there its bytes are put into the
\* memory cache before they are returned, so that the next lookup of the
\* fingerprint hits the memory cache; no page is acquired.
C15_FileHitIsPromoted ==
    [][\A r \in Jobs :
          /\ (req[r].pc # "access" /\ req'[r].pc = "access")
                 => CacheIndex(memoryCache', Hash(req'[r].html, << >>)) = 0
          /\ (req[r].pc = "readFile" /\ req'[r].pc = "done" /\ req'[r].cached)
                 => /\ PooledKey(r) \in FileKeys
                    /\ LruGet(memoryCache', PooledKey(r), now, PooledCacheTtl,
                              TRUE).hit
                    /\ LruGet(memoryCache', PooledKey(r), now, PooledCacheTtl,
                              TRUE).value = FileOf(PooledKey(r))
                    /\ req'[r].status = 200
                           => req'[r].body = FileOf(PooledKey(r))
                    /\ req'[r].page = NoPage
                    /\ pages' = pages
                    /\ info' = info]_vars

C15_Witness == \E r \in Jobs : req[r].tier = 2 /\ req[r].status = 200

\* C16: a failure to write the cache file never fails the request: the call
\* still returns the rendered bytes and stores them in the memory cache.
C16_WriteFailureStillServes ==
    [][\A r \in Jobs :
          PooledWriteFile(r, "err")
              => /\ CacheIndex(memoryCache', PooledKey(r)) # 0
                 /\ req'[r].pc = "release" => req'[r].out.ok
                 /\ req'[r].pc = "done" => req'[r].status # 500]_vars

\* C17: whenever a fingerprint has both a memory cache entry and a cache
\* file, the two hold the same bytes.
C17_TiersAgree ==
    \A i \in DOMAIN memoryCache :
        memoryCache[i].key \in FileKeys
            => FileOf(memoryCache[i].key) = memoryCache[i].value

\* C18: a memory sample over the limit leaves the memory cache with no
\* entries and the cache files as they were.
C18_MonitorEmptiesMemoryCache ==
    [][\A used \in {MEMORY_LIMIT + 1} :
          FixedMonitor(used) => memoryCache' = << >> /\ files' = files]_vars

C14_NoHitAfterTtl ==
    [][\A r \in Req :
          (req[r].pc = "idle" /\ req'[r].pc = "done" /\ req'[r].status = 200)
              => LET i == CacheIndex(memoryCache, Hash(req'[r].html, << >>))
                 IN  i # 0 /\ now <= memoryCache[i].born + FixedCacheTtl]_vars

\* C11: two requests with the same content whose option sets mean the same
\* (the same members in another order, or a member left out in one and given
\* its default value in the other) get the same fingerprint.
C11_SameMeaningSameFingerprint ==
    \A r, q \in Calls :
        (/\ req[r].hash # << >>
         /\ req[q].hash # << >>
         /\ req[r].html = req[q].html
         /\ Destructure(req[r].options) = Destructure(req[q].options))
        => req[r].hash = req[q].hash

\* the call that last used fingerprint k (a hit or a store), 0 when none did
LastUse(k) ==
    LET users == {q \in Calls : req[q].hash = k /\ req[q].tier # 0}
    IN  IF users = {} THEN 0 ELSE CHOOSE q \in users : \A p \in users : p <= q

CacheKeys(c) == {c[i].key : i \in DOMAIN c}

\* C13: the memory cache never holds more than its maximum of entries, and
\* an entry leaves it only when a lookup finds it expired or when a new key
\* is inserted into the full cache, and then it is the entry that was used
\* least recently.
C13_BoundedAndLruEvicted ==
    /\ [](Len(memoryCache) <= SyncCacheMax)
    /\ [][\A k \in CacheKeys(memoryCache) \ CacheKeys(memoryCache') :
             \/ now - memoryCache[CacheIndex(memoryCache, k)].start
                    > SyncCacheTtl
             \/ /\ Len(memoryCache) = SyncCacheMax
                /\ CacheKeys(memoryCache') \ CacheKeys(memoryCache) # {}
                /\ \A x \in CacheKeys(memoryCache) \ {k} :
                       LastUse(k) < LastUse(x)]_vars

\* the cache is full, and a stored image that has not expired was removed
\* after an older one had been used again
C13_Witness ==
    /\ Len(memoryCache) = SyncCacheMax
    /\ \E q, p, u \in Calls :
          /\ q < p /\ p < u
          /\ req[q].tier = 3 /\ req[p].tier = 3 /\ req[u].tier = 1
          /\ req[u].hash = req[q].hash
          /\ req[q].hash \in CacheKeys(memoryCache)
          /\ req[p].hash \notin CacheKeys(memoryCache)
          /\ now = 0

\* the last call that stored an image under fingerprint k, 0 when none did
LastStore(k) ==
    LET stores == {q \in Calls : req[q].hash = k /\ req[q].tier = 3}
    IN  IF stores = {} THEN 0
        ELSE CHOOSE q \in stores : \A p \in stores : p <= q

\* the memory cache holds k and the entry has not expired
InMemory(k) ==
    LET i == CacheIndex(memoryCache, k)
    IN  i # 0 /\ now - memoryCache[i].start <= SyncCacheTtl

C21_SubmissionIsAnswered ==
    \A r \in Req : (req[r].pc = "finished") ~> (req[r].pc = "done")

\* C22: whenever a job that rendered is seen completed, the memory cache
\* holds an entry for its fingerprint, and held it before the step that
\* completes the job or is given it in that very step, ahead of the return.
C22_CachedBeforeCompleted ==
    [][\A r \in Jobs :
          (/\ req[r].job = "active"
           /\ req'[r].job = "completed"
           /\ ~req'[r].cached)
          => /\ CacheIndex(memoryCache', PooledKey(r)) # 0
             /\ PooledKey(r) \in FileKeys
             /\ req[r].pc = "release"
                    => CacheIndex(memoryCache, PooledKey(r)) # 0]_vars

\* a job that rendered has completed after it waited for the release of its
\* page
C22_Witness ==
    \E r \in Jobs :
        /\ req[r].job = "completed"
        /\ req[r].tier = 0
        /\ req[r].status = 200
        /\ ~req[r].cached
        /\ CacheIndex(memoryCache, PooledKey(r)) # 0

\* C23: a render that fails transiently (a timeout, a page that crashed) is
\* retried once or twice before its job is reported failed: a job is failed
\* only after its handler has run at least twice.
C23_FailedAfterRetry ==
    [][\A r \in Jobs :
          (req[r].job = "active" /\ req'[r].job = "failed")
              => req[r].attemptsMade >= 2]_vars

\* what the engine returns for a page that holds the request's own document
\* in the request's own viewport
OwnOutput(rec) ==
    Output([page EXCEPT !.content = rec.html,
                        !.viewport = <<rec.options.width, rec.options.height>>],
           rec.options)

\* C24: on the shared page the bytes returned to a request, and the bytes
\* stored in the cache under its hash, are a render of its own html in its
\* own viewport, never of the content of another request.
C24_OwnContentReturned ==
    \A r \in Clients :
        req[r].pc = "done" /\ req[r].status = 200
            => /\ req[r].body = OwnOutput(req[r])
               /\ LET i == CacheIndex(memoryCache,
                                      SingleHash(req[r].html, req[r].options))
                  IN  i # 0 => memoryCache[i].value = OwnOutput(req[r])

\* ==================================================== properties of cleanup
\* C25: cleanup never takes a page from a running job: a page that a call
\* has acquired and not yet released is never closed and never removed from
\* the pages of the pool.
C25_HeldPageStaysInPool ==
    \A r \in Req : Rendering(r) => InPool(pages, req[r].page)

\* C26: cleanup replaces every page it closes by a new idle page, so the
\* pool holds maxSize pages whenever no cleanup is in progress.
C26_PoolKeepsMaxSize ==
    (\A c \in Cleaner : clean[c].pc = "idle") => Len(pages) = FixedMaxSize

\* C27: when page.close() fails during cleanup the page is in the pool no
\* longer, so that it cannot be acquired again.
C27_FailedCloseLeavesPool ==
    [][\A c \in Cleaner :
          FixedCleanupClosed(c, "err")
              => ~InPool(pages', Head(clean[c].old))]_vars

\* C28: when every page of the fixed pool is in use, a request that has to
\* render fails at once with an error: no page is created, no inUse or
\* lastUsed field changes, the request holds no page and releases none.
C28_SaturatedAcquireFailsCleanly ==
    [][\A r \in Req :
          (/\ req[r].pc = "idle"
           /\ req'[r].pc \notin {"idle", "finished"}
           /\ req'[r].html # NoHtml
           /\ FirstIdle(pages, info) = 0
           /\ ~LruGet(memoryCache, Hash(req'[r].html, << >>), now,
                      FixedCacheTtl, TRUE).hit)
          => /\ req'[r].pc = "done"
             /\ req'[r].status = 500
             /\ req'[r].page = NoPage
             /\ pages' = pages
             /\ info' = info
             /\ nextPage' = nextPage
             /\ failedPages' = failedPages]_vars

\* both pages are in use, no render has failed, and a request was refused
C28_Witness ==
    /\ Len(pages) = FixedMaxSize
    /\ InUseCount(pages, info) = FixedMaxSize
    /\ failedPages = {}
    /\ \E r \in Req :
          req[r].pc = "done" /\ req[r].status = 500 /\ req[r].html # NoHtml

\* C29: every /image request that supplies no html is answered 400, and no
\* job is added to the queue and no page is acquired for it.
C29_NoContentIsRejected ==
    \A r \in Calls :
        req[r].pc # "idle" /\ req[r].html \notin SyncHtmls
            => /\ req[r].status = 400
               /\ req[r].job = "none"
               /\ req[r].page = NoPage

\* C30: the sweep of the cache directory deletes the cache files that are
\* more than 24 hours old and no other: a file leaves the directory only
\* when it is that old, every file that old can be deleted whatever happened
\* to the others, the younger files and the memory cache stay as they are,
\* and an error on one file changes nothing.
C30_SweepDeletesOldFilesOnly ==
    /\ [](\A k \in SyncKeys : Expired(k) => ENABLED SyncUnlink(k, "ok"))
    /\ [][\A k \in SyncKeys :
             /\ (k \in FileKeys /\ k \notin FileKeys') => Expired(k)
             /\ SyncUnlink(k, "ok") =>
                    /\ files' = {f \in files : f.key # k}
                    /\ memoryCache' = memoryCache
             /\ SyncUnlink(k, "err") => UNCHANGED vars]_vars

\* an old file was deleted while a younger one stays and the memory cache
\* holds an image
C30_Witness ==
    /\ \E q \in Calls :
          /\ req[q].tier = 3
          /\ req[q].hash \notin FileKeys
          /\ now - req[q].at > DayMs
    /\ \E f \in files : now - f.mtime <= DayMs
    /\ memoryCache # << >>

\* ================================================= properties of the cluster
\* C31: whenever a worker exits, with any code, the master forks exactly one
\* replacement: live workers and exits not yet handled add up to
\* CONFIG.WORKERS, each handled exit adds one live worker, and once the exits
\* have stopped the number of live workers is CONFIG.WORKERS for good.
C31_WorkersAreReplaced ==
    /\ [](Cardinality(Live(cluster)) + Len(cluster.exits) = NumWorkers)
    /\ [][MasterOnExit =>
             Cardinality(Live(cluster')) = Cardinality(Live(cluster)) + 1]_vars
    /\ <>[](Cardinality(Live(cluster)) = NumWorkers)

\* every followed exit has happened and was handled, every worker id has
\* been given out, and the live workers are NumWorkers again
C31_Witness ==
    /\ Cardinality(Gone(cluster)) = MaxExits
    /\ cluster.exits = << >>
    /\ Cardinality(Live(cluster)) = NumWorkers
    /\ \A w \in WorkerIds : cluster.workers[w] # "none"

\* the inUse flags of the pages of the pool
Flags(ps, inf) == [i \in DOMAIN ps |-> inf[ps[i]].inUse]

\* C32: releasing a page that is idle already, or a page that is not in the
\* pool (any more), leaves the inUse flag of every page of the pool and the
\* page list as they were; a second release changes no flag after the first;
\* and a page in the pool that a job holds is never marked idle.
C32_ReleaseIsIdempotent ==
    /\ [](\A p \in 1..MaxPageId :
            LET once == ReleaseFixed(pages, info, p, now) IN
            /\ ~InPool(pages, p) => once = info
            /\ (InPool(pages, p) /\ ~info[p].inUse)
                   => Flags(pages, once) = Flags(pages, info)
            /\ Flags(pages, ReleaseFixed(pages, once, p, now))
                   = Flags(pages, once))
    /\ [][\A r \in Req :
            (/\ Rendering(r)
             /\ req'[r].pc = "done"
             /\ \/ ~InPool(pages, req[r].page)
                \/ ~info[req[r].page].inUse)
                => pages' = pages /\ Flags(pages', info') = Flags(pages, info)]_vars
    /\ [](\A r \in Req :
            (Rendering(r) /\ InPool(pages, req[r].page))
                => info[req[r].page].inUse)

\* a failed call has released a page that had left the pool: the page is
\* held by no call, and its flag was left set
C32_Witness ==
    \E p \in failedPages :
        /\ ~InPool(pages, p)
        /\ info[p].inUse
        /\ \A r \in Req : req[r].page # p
        /\ \E q \in 1..MaxPageId : InPool(pages, q) /\ ~info[q].inUse

\* C33: when generateImage throws, the memory cache and the cache files hold
\* no entry for the fingerprint of that call that they did not hold before.
\* Stated for a call that alone has its html, the caches being empty at the
\* start: generateImage ends by throwing (its job, still active, fails with
\* it), and neither cache has an entry for the fingerprint.
C33_FailedRenderLeavesCache ==
    [][\A r \in Jobs :
          (/\ req[r].pc \notin {"idle", "done"}
           /\ req'[r].pc = "done"
           /\ req[r].job = "active"
           /\ req'[r].job = "failed"
           /\ \A q \in Jobs \ {r} : req[q].html # req[r].html)
              => LET k == Hash(req[r].html, << >>) IN
                 /\ k \notin FileKeys
                 /\ CacheIndex(memoryCache, k) = 0]_vars

====
